---- MODULE Spec2Model ----
(***************************************************************************)
(* Model of scenarios/discovery_collab_simulation.py: the configuration,   *)
(* the discovery and collaboration phase set-up, the neighbor topology,    *)
(* the renderer selection and the event loop of the simulator.             *)
(*                                                                         *)
(* Time is counted in ticks of 0.1 s.  Every time of the program is a      *)
(* float that ns.Seconds converts to the engine's integer nanoseconds;     *)
(* the literals 0.2, 0.3, 1.0, 2.0, 25.0 and the durations drawn below     *)
(* are whole numbers of ticks, and for the participant counts modelled     *)
(* the float sums start + k * 0.2 and start + k * 0.3 are the doubles      *)
(* nearest to the exact decimal value.                                     *)
(***************************************************************************)
EXTENDS Integers, Sequences, FiniteSets, TLC

\* ---------------------------------------------------------------- bounds
MaxFixed == 3
MaxMobile == 4

\* --numFixed, --numMobile (type=int); negative counts are left out
NumFixedChoices == 0..MaxFixed
NumMobileChoices == 0..MaxMobile
\* --discoveryDuration (type=float): 0 s, 0.5 s, 1 s, 20 s (default), 24 s
DiscoveryDurations == {0, 5, 10, 200, 240}
\* --collabDuration (type=float): 0 s, 70 s (default), 80 s
CollabDurations == {0, 700, 800}
\* --simTime (type=float): 30 s, 100 s (default)
SimTimes == {300, 1000}

\* ------------------------------------------- SimulationConfig.__init__
discovery_start == 20
collab_start == 250
discovery_port == 8000
collab_base_port == 9000
discovery_interval == 20
\* spacing of the discovery offsets (0.2 s) and collaboration offsets (0.3 s)
DiscoverySpacing == 2
CollabSpacing == 3
\* Interval of the collaboration clients (1.0 s) and their MaxPackets
CollabInterval == 10
CollabMaxPackets == 10000
DiscoveryPacketSize == 128
CollabPacketSize == 1024
\* host part of 10.1.1.255, the subnet broadcast address
BroadcastAddr == 255

VARIABLES
    pc,                  \* position of main(): initialize, setup steps, run
    num_fixed_nodes,     \* config.num_fixed_nodes
    num_mobile_nodes,    \* config.num_mobile_nodes
    sim_time,            \* config.sim_time
    discovery_duration,  \* config.discovery_duration
    collab_duration,     \* config.collab_duration
    fixed_interfaces,    \* stack_config.fixed_interfaces: address of Fixed-i at i+1
    mobile_interfaces,   \* stack_config.mobile_interfaces
    discovery_servers,   \* discovery_manager.discovery_servers
    discovery_clients,   \* discovery_manager.discovery_clients
    collab_servers,      \* collab_manager.collab_servers
    collab_clients,      \* collab_manager.collab_clients
    neighbors,           \* the dictionary _find_neighbors returned
    error,               \* the exception that ended main(), or "none"
    orchestrator,        \* viz_manager.orchestrator is set
    anim,                \* viz_manager.anim is set
    netanim_calls,       \* calls of _setup_netanim
    now,                 \* Simulator.Now() in ticks
    events,              \* the simulator's pending events
    next_uid,            \* uid of the next event scheduled
    running,             \* applications whose StartApplication ran, not yet stopped
    sent,                \* discovery client k -> packets sent (m_sent)
    last_sent            \* discovery client k -> time of its last packet, -1 if none

vars == <<pc, num_fixed_nodes, num_mobile_nodes, sim_time, discovery_duration,
          collab_duration, fixed_interfaces, mobile_interfaces,
          discovery_servers, discovery_clients, collab_servers, collab_clients,
          neighbors, error, orchestrator, anim, netanim_calls,
          now, events, next_uid, running, sent, last_sent>>

config_vars == <<num_fixed_nodes, num_mobile_nodes, sim_time,
                 discovery_duration, collab_duration>>
app_vars == <<discovery_servers, discovery_clients, collab_servers, collab_clients>>
viz_vars == <<orchestrator, anim, netanim_calls>>
run_vars == <<now, events, next_uid, running, sent, last_sent>>

\* ---------------------------------------------------------------- helpers
\* range(n) of Python as a sequence 0, 1, .., n-1
range(n) == [k \in 1..n |-> k - 1]

abs(x) == IF x < 0 THEN -x ELSE x

min(a, b) == IF a < b THEN a ELSE b

RECURSIVE Flatten(_)
Flatten(ss) == IF ss = <<>> THEN <<>> ELSE Head(ss) \o Flatten(Tail(ss))

\* the name f"Fixed-{i}" / f"Mobile-{i}" as a pair
Fixed(i) == <<"fixed", i>>
Mobile(i) == <<"mobile", i>>

\* position of a participant in all_nodes (fixed nodes are added first)
GlobalIndex(p) == IF p[1] = "fixed" THEN p[2] ELSE num_fixed_nodes + p[2]

DiscoveryEnd == discovery_start + discovery_duration
CollabEnd == collab_start + collab_duration

\* -------------------------------------------------------------- initial
Init ==
    /\ pc = "initialize"
    /\ num_fixed_nodes = 2
    /\ num_mobile_nodes = 4
    /\ sim_time = 1000
    /\ discovery_duration = 200
    /\ collab_duration = 700
    /\ fixed_interfaces = <<>>
    /\ mobile_interfaces = <<>>
    /\ discovery_servers = <<>>
    /\ discovery_clients = <<>>
    /\ collab_servers = <<>>
    /\ collab_clients = <<>>
    /\ neighbors = <<>>
    /\ error = "none"
    /\ orchestrator = FALSE
    /\ anim = FALSE
    /\ netanim_calls = 0
    /\ now = 0
    /\ events = {}
    /\ next_uid = 0
    /\ running = {}
    /\ sent = <<>>
    /\ last_sent = <<>>

\* Simulation.initialize: parse_arguments stores the flags, unvalidated
Initialize ==
    /\ pc = "initialize"
    /\ \E f \in NumFixedChoices, m \in NumMobileChoices,
          dd \in DiscoveryDurations, cd \in CollabDurations, st \in SimTimes :
          /\ num_fixed_nodes' = f
          /\ num_mobile_nodes' = m
          /\ discovery_duration' = dd
          /\ collab_duration' = cd
          /\ sim_time' = st
    /\ pc' = "setup_network"
    /\ UNCHANGED <<fixed_interfaces, mobile_interfaces, app_vars, neighbors,
                   error, viz_vars, run_vars>>

\* Simulation.setup up to assign_ip_addresses: the address helper hands out
\* 10.1.1.1, 10.1.1.2, .. to the fixed devices, then to the mobile devices
assign_ip_addresses ==
    /\ pc = "setup_network"
    /\ fixed_interfaces' = [k \in 1..num_fixed_nodes |-> k]
    /\ mobile_interfaces' = [k \in 1..num_mobile_nodes |-> num_fixed_nodes + k]
    /\ pc' = "setup_discovery"
    /\ UNCHANGED <<config_vars, app_vars, neighbors, error, viz_vars, run_vars>>

\* interfaces.GetAddress(i)
GetAddress(interfaces, i) == interfaces[i + 1]

\* ------------------------------------------------- DiscoveryPhaseManager
_create_discovery_server(node, address) ==
    [node |-> node, addr |-> address, port |-> discovery_port,
     start |-> discovery_start, stop |-> discovery_start + discovery_duration]

\* the sender addressed to the first entry of all_addresses, not the broadcast
_create_discovery_client_unicast(node, start_time) ==
    [node |-> node, remote_addr |-> 1, remote_port |-> discovery_port,
     max_packets |-> discovery_duration \div discovery_interval,
     interval |-> discovery_interval, packet_size |-> DiscoveryPacketSize,
     start |-> start_time, stop |-> discovery_start + discovery_duration]

_create_discovery_client(node, start_time) ==
    [node |-> node, remote_addr |-> BroadcastAddr, remote_port |-> discovery_port,
     max_packets |-> discovery_duration \div discovery_interval,
     interval |-> discovery_interval, packet_size |-> DiscoveryPacketSize,
     start |-> start_time, stop |-> discovery_start + discovery_duration]

\* start_time argument of the fixed and of the mobile discovery clients
fixed_discovery_start(i) == discovery_start + i * DiscoverySpacing

\* the mobile offsets counted from 0 again, without the fixed nodes before them
mobile_discovery_start_restarts(i) == discovery_start + i * DiscoverySpacing

mobile_discovery_start(i) ==
    discovery_start + (num_fixed_nodes + i) * DiscoverySpacing

setup_discovery_phase ==
    /\ pc = "setup_discovery"
    /\ discovery_servers' =
          [k \in 1..num_fixed_nodes |->
              _create_discovery_server(Fixed(k - 1), GetAddress(fixed_interfaces, k - 1))]
          \o [k \in 1..num_mobile_nodes |->
              _create_discovery_server(Mobile(k - 1), GetAddress(mobile_interfaces, k - 1))]
    /\ discovery_clients' =
          [k \in 1..num_fixed_nodes |->
              _create_discovery_client(Fixed(k - 1), fixed_discovery_start(k - 1))]
          \o [k \in 1..num_mobile_nodes |->
              _create_discovery_client(Mobile(k - 1), mobile_discovery_start(k - 1))]
    /\ pc' = "setup_collaboration"
    /\ UNCHANGED <<config_vars, fixed_interfaces, mobile_interfaces,
                   collab_servers, collab_clients, neighbors, error, viz_vars,
                   run_vars>>

\* ---------------------------------------------- CollaborationPhaseManager
_create_collab_server(node, port, address) ==
    [node |-> node, addr |-> address, port |-> port,
     start |-> collab_start, stop |-> collab_start + collab_duration]

_create_collab_client(node, target_addr, target_port, start_time, target_name) ==
    [node |-> node, target |-> target_name,
     remote_addr |-> target_addr, remote_port |-> target_port,
     max_packets |-> CollabMaxPackets, interval |-> CollabInterval,
     packet_size |-> CollabPacketSize,
     start |-> start_time, stop |-> collab_start + collab_duration]

\* port of the server installed on Fixed-i and on Mobile-i
fixed_server_port(i) == collab_base_port + i

\* the mobile ports counted from the base port, colliding with the fixed ones
mobile_server_port_from_base(i) == collab_base_port + i

mobile_server_port(i) == collab_base_port + num_fixed_nodes + i

\* target_port of a client, computed again from the neighbor's index and type
fixed_target_port(neighbor_idx) == collab_base_port + neighbor_idx

\* the sender side forgetting the fixed nodes the receiver side counts
mobile_target_port_from_base(neighbor_idx) == collab_base_port + neighbor_idx

mobile_target_port(neighbor_idx) ==
    collab_base_port + num_fixed_nodes + neighbor_idx

\* start_time of every client installed on Fixed-i and on Mobile-i
fixed_collab_start(i) == collab_start + i * CollabSpacing

\* the mobile start times counted from 0 again, as for the fixed nodes
mobile_collab_start_restarts(i) == collab_start + i * CollabSpacing

mobile_collab_start(i) == collab_start + (num_fixed_nodes + i) * CollabSpacing

\* every other fixed node taken as adjacent, not only the next in the chain
fixed_neighbors_all(i) ==
    LET adjacent == SelectSeq(range(num_fixed_nodes), LAMBDA j : i # j)
    IN  [k \in 1..Len(adjacent) |-> <<adjacent[k], "fixed">>]
        \o [k \in 1..min(2, num_mobile_nodes) |-> <<range(min(2, num_mobile_nodes))[k], "mobile">>]

\* _find_neighbors, the list built for ('fixed', i)
fixed_neighbors(i) ==
    LET adjacent == SelectSeq(range(num_fixed_nodes),
                              LAMBDA j : i # j /\ abs(i - j) <= 1)
    IN  [k \in 1..Len(adjacent) |-> <<adjacent[k], "fixed">>]
        \o [k \in 1..min(2, num_mobile_nodes) |-> <<range(min(2, num_mobile_nodes))[k], "mobile">>]

\* the next mobile node appended without the test that it is another node
mobile_neighbors_unchecked(i) ==
    <<<<i % num_fixed_nodes, "fixed">>, <<(i + 1) % num_mobile_nodes, "mobile">>>>

\* _find_neighbors, the list built for ('mobile', i); needs num_fixed_nodes # 0
mobile_neighbors(i) ==
    LET fixed_neighbor == i % num_fixed_nodes
        next_mobile == (i + 1) % num_mobile_nodes
    IN  <<<<fixed_neighbor, "fixed">>>>
        \o (IF next_mobile # i THEN <<<<next_mobile, "mobile">>>> ELSE <<>>)

\* i % num_fixed_nodes raises ZeroDivisionError in the first round of the
\* mobile loop when there is no fixed node
find_neighbors_raises == num_mobile_nodes >= 1 /\ num_fixed_nodes = 0

_find_neighbors ==
    [p \in {Fixed(i) : i \in 0..num_fixed_nodes - 1}
           \cup {Mobile(i) : i \in 0..num_mobile_nodes - 1} |->
        IF p[1] = "fixed" THEN fixed_neighbors(p[2]) ELSE mobile_neighbors(p[2])]

\* neighbors.get(key, [])
get(dict, key) == IF key \in DOMAIN dict THEN dict[key] ELSE <<>>

\* the sender of an edge installed on the neighbor, the edge's target
fixed_connections_on_target(nbrs, i) ==
    LET list == get(nbrs, Fixed(i))
    IN  [k \in 1..Len(list) |->
            IF list[k][2] = "fixed"
            THEN _create_collab_client(Fixed(list[k][1]),
                     GetAddress(fixed_interfaces, list[k][1]),
                     fixed_target_port(list[k][1]),
                     fixed_collab_start(i), Fixed(list[k][1]))
            ELSE _create_collab_client(Mobile(list[k][1]),
                     GetAddress(mobile_interfaces, list[k][1]),
                     mobile_target_port(list[k][1]),
                     fixed_collab_start(i), Mobile(list[k][1]))]

\* the clients _setup_collab_connections installs on Fixed-i
fixed_connections(nbrs, i) ==
    LET list == get(nbrs, Fixed(i))
    IN  [k \in 1..Len(list) |->
            IF list[k][2] = "fixed"
            THEN _create_collab_client(Fixed(i),
                     GetAddress(fixed_interfaces, list[k][1]),
                     fixed_target_port(list[k][1]),
                     fixed_collab_start(i), Fixed(list[k][1]))
            ELSE _create_collab_client(Fixed(i),
                     GetAddress(mobile_interfaces, list[k][1]),
                     mobile_target_port(list[k][1]),
                     fixed_collab_start(i), Mobile(list[k][1]))]

\* the clients _setup_collab_connections installs on Mobile-i
mobile_connections(nbrs, i) ==
    LET list == get(nbrs, Mobile(i))
    IN  [k \in 1..Len(list) |->
            IF list[k][2] = "fixed"
            THEN _create_collab_client(Mobile(i),
                     GetAddress(fixed_interfaces, list[k][1]),
                     fixed_target_port(list[k][1]),
                     mobile_collab_start(i), Fixed(list[k][1]))
            ELSE _create_collab_client(Mobile(i),
                     GetAddress(mobile_interfaces, list[k][1]),
                     mobile_target_port(list[k][1]),
                     mobile_collab_start(i), Mobile(list[k][1]))]

_setup_collab_connections(nbrs) ==
    Flatten([k \in 1..num_fixed_nodes |-> fixed_connections(nbrs, k - 1)])
    \o Flatten([k \in 1..num_mobile_nodes |-> mobile_connections(nbrs, k - 1)])

\* The servers are installed first; _find_neighbors runs after them, and an
\* exception it raises leaves main() with the applications installed so far.
setup_collaboration_phase ==
    /\ pc = "setup_collaboration"
    /\ collab_servers' =
          [k \in 1..num_fixed_nodes |->
              _create_collab_server(Fixed(k - 1), fixed_server_port(k - 1),
                                    GetAddress(fixed_interfaces, k - 1))]
          \o [k \in 1..num_mobile_nodes |->
              _create_collab_server(Mobile(k - 1), mobile_server_port(k - 1),
                                    GetAddress(mobile_interfaces, k - 1))]
    /\ IF find_neighbors_raises
       THEN /\ error' = "ZeroDivisionError"
            /\ pc' = "error"
            /\ UNCHANGED <<neighbors, collab_clients>>
       ELSE /\ neighbors' = _find_neighbors
            /\ collab_clients' = _setup_collab_connections(_find_neighbors)
            /\ pc' = "setup_visualization"
            /\ UNCHANGED error
    /\ UNCHANGED <<config_vars, fixed_interfaces, mobile_interfaces,
                   discovery_servers, discovery_clients, viz_vars, run_vars>>

\* --------------------------------------------------- VisualizationManager
\* What a renderer's set-up does: it returns, it raises before the object is
\* stored in the manager, or it raises in the decoration code after that.
SetupOutcomes == {"ok", "raises_in_constructor", "raises_after_constructor"}

\* setup_visualization: has_netsimulyzer is hasattr(ns, 'netsimulyzer'),
\* primary the outcome of _setup_netsimulyzer, first and second the outcomes
\* of the first and second call of _setup_netanim.  An exception in the try
\* block, whichever call raised it, is answered by a call of _setup_netanim;
\* an exception of that call leaves main().
setup_visualization ==
    /\ pc = "setup_visualization"
    /\ \E has_netsimulyzer \in BOOLEAN, primary \in SetupOutcomes,
          first \in SetupOutcomes, second \in SetupOutcomes :
          LET try_raises == IF has_netsimulyzer THEN primary # "ok" ELSE first # "ok"
              calls == IF has_netsimulyzer
                       THEN (IF try_raises THEN 1 ELSE 0)
                       ELSE (IF try_raises THEN 2 ELSE 1)
              last == IF calls = 2 THEN second ELSE first
          IN  /\ orchestrator' = (has_netsimulyzer /\ primary # "raises_in_constructor")
              /\ netanim_calls' = calls
              /\ anim' = \/ calls >= 1 /\ first # "raises_in_constructor"
                         \/ calls = 2 /\ second # "raises_in_constructor"
              /\ IF try_raises /\ last # "ok"
                 THEN pc' = "error" /\ error' = "Exception"
                 ELSE pc' = "run" /\ UNCHANGED error
    /\ UNCHANGED <<config_vars, fixed_interfaces, mobile_interfaces, app_vars,
                   neighbors, run_vars>>

\* ------------------------------------------------------- Simulation.run
\* The engine is ns-3: Application::DoInitialize schedules StartApplication
\* at the start time and, independently, StopApplication at the stop time
\* (when that is not 0); events run in the order of their time and, at the
\* same time, in the order they were scheduled (uid).  The nodes are
\* initialized in the order they were created, the applications of a node
\* in the order they were installed on it.
\* An application is named by its container and its position in it.
App(id) ==
    CASE id[1] = "discovery_servers" -> discovery_servers[id[2]]
      [] id[1] = "discovery_clients" -> discovery_clients[id[2]]
      [] id[1] = "collab_servers" -> collab_servers[id[2]]
      [] id[1] = "collab_clients" -> collab_clients[id[2]]

\* the applications installed on the node of global index g, in install order
AppsOn(g) ==
    <<<<"discovery_servers", g + 1>>, <<"discovery_clients", g + 1>>,
      <<"collab_servers", g + 1>>>>
    \o [k \in 1..Len(SelectSeq(range(Len(collab_clients)),
                     LAMBDA c : GlobalIndex(collab_clients[c + 1].node) = g)) |->
          <<"collab_clients",
            SelectSeq(range(Len(collab_clients)),
                LAMBDA c : GlobalIndex(collab_clients[c + 1].node) = g)[k] + 1>>]

InstallOrder ==
    Flatten([g \in 1..(num_fixed_nodes + num_mobile_nodes) |-> AppsOn(g - 1)])

\* app.Start(t) and app.Stop(t) as the events DoInitialize schedules
InitialEvents ==
    LET order == InstallOrder
    IN  {[time |-> App(order[a]).start, uid |-> 2 * a - 2, type |-> "start",
          app |-> order[a]] : a \in 1..Len(order)}
        \cup {[time |-> App(order[a]).stop, uid |-> 2 * a - 1, type |-> "stop",
               app |-> order[a]] : a \in {b \in 1..Len(order) : App(order[b]).stop # 0}}

Before(e, f) == e.time < f.time \/ (e.time = f.time /\ e.uid <= f.uid)

NextEvent == CHOOSE e \in events : \A f \in events : Before(e, f)

\* Simulation.run: Simulator.Stop(sim_time), then Simulator.Run() initializes
\* the nodes at time 0
start_run ==
    /\ pc = "run"
    /\ pc' = "running"
    /\ now' = 0
    /\ events' = InitialEvents
    /\ next_uid' = 2 * Len(InstallOrder)
    /\ running' = {}
    /\ sent' = [k \in 1..Len(discovery_clients) |-> 0]
    /\ last_sent' = [k \in 1..Len(discovery_clients) |-> -1]
    /\ UNCHANGED <<config_vars, fixed_interfaces, mobile_interfaces, app_vars,
                   neighbors, error, viz_vars>>

\* StartApplication: a UdpEchoClient schedules its first packet with delay 0.
\* The packets of the collaboration clients are not tracked.
StartApplication(e) ==
    /\ running' = running \cup {e.app}
    /\ IF e.app[1] = "discovery_clients"
       THEN /\ events' = (events \ {e}) \cup
                  {[time |-> e.time, uid |-> next_uid, type |-> "send", app |-> e.app]}
            /\ next_uid' = next_uid + 1
       ELSE /\ events' = events \ {e}
            /\ UNCHANGED next_uid
    /\ UNCHANGED <<sent, last_sent>>

\* StopApplication: cancels the pending send event of the application
StopApplication(e) ==
    /\ running' = running \ {e.app}
    /\ events' = {f \in events \ {e} : ~(f.type = "send" /\ f.app = e.app)}
    /\ UNCHANGED <<next_uid, sent, last_sent>>

\* UdpEchoClient::Send: one packet, and the next one after Interval while
\* fewer than MaxPackets were sent (MaxPackets = 0: no limit)
Send(e) ==
    LET k == e.app[2]
        client == discovery_clients[k]
    IN  /\ sent' = [sent EXCEPT ![k] = @ + 1]
        /\ last_sent' = [last_sent EXCEPT ![k] = e.time]
        /\ IF sent[k] + 1 < client.max_packets \/ client.max_packets = 0
           THEN /\ events' = (events \ {e}) \cup
                      {[time |-> e.time + client.interval, uid |-> next_uid,
                        type |-> "send", app |-> e.app]}
                /\ next_uid' = next_uid + 1
           ELSE /\ events' = events \ {e}
                /\ UNCHANGED next_uid
        /\ UNCHANGED running

\* one event of Simulator.Run(); an event at sim_time itself may or may not
\* run before the stop event of Simulator.Stop
run_event ==
    /\ pc = "running"
    /\ events # {}
    /\ NextEvent.time <= sim_time
    /\ LET e == NextEvent
       IN  /\ now' = e.time
           /\ CASE e.type = "start" -> StartApplication(e)
                [] e.type = "stop" -> StopApplication(e)
                [] e.type = "send" -> Send(e)
    /\ UNCHANGED <<pc, config_vars, fixed_interfaces, mobile_interfaces, app_vars,
                   neighbors, error, viz_vars>>

\* the stop event: Simulator.Run() returns and Simulator.Destroy() drops
\* the events that are left
finish_run ==
    /\ pc = "running"
    /\ IF events = {} THEN TRUE ELSE NextEvent.time >= sim_time
    /\ pc' = "done"
    /\ now' = sim_time
    /\ events' = {}
    /\ UNCHANGED <<config_vars, fixed_interfaces, mobile_interfaces, app_vars,
                   neighbors, error, viz_vars, next_uid, running, sent, last_sent>>

Next ==
    \/ Initialize
    \/ assign_ip_addresses
    \/ setup_discovery_phase
    \/ setup_collaboration_phase
    \/ setup_visualization
    \/ start_run
    \/ run_event
    \/ finish_run

Spec == Init /\ [][Next]_vars

\* main() up to the return of Simulation.setup
SetupNext ==
    \/ Initialize
    \/ assign_ip_addresses
    \/ setup_discovery_phase
    \/ setup_collaboration_phase
    \/ setup_visualization

SetupSpec == Init /\ [][SetupNext]_vars

\* ================================================================= claims
SetupReturned == pc \in {"run", "running", "done"}

TopologyReturned == pc \in {"setup_visualization", "run", "running", "done"}
                    \/ (pc = "error" /\ error = "Exception")

Range(seq) == {seq[k] : k \in 1..Len(seq)}

\* C1: when the collaboration window starts before the discovery window ends
\* (collab_start < discovery_start + discovery_duration), set-up ends in a
\* configuration error and Simulation.run is never reached.
C1_OverlapNeverRuns ==
    (pc # "initialize" /\ collab_start < discovery_start + discovery_duration)
        => ~SetupReturned

\* C2: when set-up ends in an error caused by the configuration, no
\* application has been installed: the four containers are still empty.
C2_NothingInstalledAtConfigError ==
    (pc = "error" /\ error = "ZeroDivisionError")
        => /\ discovery_servers = <<>>
           /\ discovery_clients = <<>>
           /\ collab_servers = <<>>
           /\ collab_clients = <<>>

\* C3: with at least one fixed and no mobile participant the computation of
\* the neighbor topology raises; it never returns a topology.
C3_NoMobileRaises ==
    (pc # "initialize" /\ num_fixed_nodes >= 1 /\ num_mobile_nodes = 0)
        => ~TopologyReturned

\* C4: every installed application has startTime < stopTime, both inside the
\* window of its phase.
C4_EventsInsideWindow ==
    /\ \A a \in Range(discovery_servers \o discovery_clients) :
          /\ a.start < a.stop
          /\ discovery_start <= a.start /\ a.start <= DiscoveryEnd
          /\ discovery_start <= a.stop /\ a.stop <= DiscoveryEnd
    /\ \A a \in Range(collab_servers \o collab_clients) :
          /\ a.start < a.stop
          /\ collab_start <= a.start /\ a.start <= CollabEnd
          /\ collab_start <= a.stop /\ a.stop <= CollabEnd

\* C5: the sender of the participant at global index k starts at
\* window.start + k * spacing (0.2 s in discovery, 0.3 s in collaboration),
\* the offsets strictly increase with k in the fixed-then-mobile order, and
\* when spacing * (F + M) < window length every offset lies in
\* [window.start, window.start + window.length).
C5_OffsetsBySpacing ==
    /\ \A k \in 1..Len(discovery_clients) :
          /\ GlobalIndex(discovery_clients[k].node) = k - 1
          /\ discovery_clients[k].start = discovery_start + (k - 1) * DiscoverySpacing
          /\ \A j \in 1..(k - 1) :
                discovery_clients[j].start < discovery_clients[k].start
          /\ DiscoverySpacing * (num_fixed_nodes + num_mobile_nodes) < discovery_duration
                => /\ discovery_start <= discovery_clients[k].start
                   /\ discovery_clients[k].start < DiscoveryEnd
    /\ \A c \in Range(collab_clients) :
          /\ c.start = collab_start + GlobalIndex(c.node) * CollabSpacing
          /\ \A d \in Range(collab_clients) :
                GlobalIndex(d.node) < GlobalIndex(c.node) => d.start < c.start
          /\ CollabSpacing * (num_fixed_nodes + num_mobile_nodes) < collab_duration
                => collab_start <= c.start /\ c.start < CollabEnd

\* C5 witness: the window [2.0, 22.0) with 2 fixed and 4 mobile participants
\* gives the offsets 2.0, 2.2, 2.4, 2.6, 2.8, 3.0, and the collaboration
\* senders of the last participant start at 25.0 + 5 * 0.3.
C5_Witness ==
    /\ pc = "setup_visualization"
    /\ num_fixed_nodes = 2 /\ num_mobile_nodes = 4
    /\ discovery_duration = 200 /\ collab_duration = 700
    /\ [k \in 1..Len(discovery_clients) |-> discovery_clients[k].start]
          = <<20, 22, 24, 26, 28, 30>>
    /\ \E c \in Range(collab_clients) : c.node = Mobile(3) /\ c.start = 265

\* C6: with F, M >= 1 the installed collaboration servers have pairwise
\* distinct ports, exactly the values basePort .. basePort + F + M - 1,
\* Fixed-i at basePort + i and Mobile-i at basePort + F + i.
C6_CollabPortsDistinct ==
    (num_fixed_nodes >= 1 /\ num_mobile_nodes >= 1 /\ collab_servers # <<>>)
        => /\ Len(collab_servers) = num_fixed_nodes + num_mobile_nodes
           /\ \A k \in 1..Len(collab_servers) :
                 /\ collab_servers[k].node =
                       IF k <= num_fixed_nodes THEN Fixed(k - 1)
                       ELSE Mobile(k - 1 - num_fixed_nodes)
                 /\ collab_servers[k].port = collab_base_port + k - 1
                 /\ \A j \in 1..Len(collab_servers) :
                       j # k => collab_servers[j].port # collab_servers[k].port
           /\ {s.port : s \in Range(collab_servers)} =
                 collab_base_port..(collab_base_port + num_fixed_nodes + num_mobile_nodes - 1)

\* C6 witness: F = 2, M = 4, base 9000: Fixed-0 9000, Fixed-1 9001,
\* Mobile-0 9002, Mobile-3 9005.
C6_Witness ==
    /\ num_fixed_nodes = 2 /\ num_mobile_nodes = 4
    /\ Len(collab_servers) = 6
    /\ \E s \in Range(collab_servers) : s.node = Fixed(0) /\ s.port = 9000
    /\ \E s \in Range(collab_servers) : s.node = Fixed(1) /\ s.port = 9001
    /\ \E s \in Range(collab_servers) : s.node = Mobile(0) /\ s.port = 9002
    /\ \E s \in Range(collab_servers) : s.node = Mobile(3) /\ s.port = 9005

\* C7: the destination (address, port) of every collaboration client equals
\* the (address, port) of the collaboration server installed on its target.
C7_ClientReachesServer ==
    \A c \in Range(collab_clients) :
        \E s \in Range(collab_servers) :
            /\ s.node = c.target
            /\ s.addr = c.remote_addr
            /\ s.port = c.remote_port

\* C7 witness: clients are installed for a fixed and for a mobile target
\* while the fixed participants shift the mobile ports.
C7_Witness ==
    /\ num_fixed_nodes >= 2
    /\ \E c \in Range(collab_clients) : c.target[1] = "fixed" /\ c.target[2] >= 1
    /\ \E c \in Range(collab_clients) : c.target[1] = "mobile" /\ c.target[2] >= 1

\* the adjacency rule, as a set of participants
RuleNeighbors(p) ==
    IF p[1] = "fixed"
    THEN {Fixed(j) : j \in {x \in 0..(num_fixed_nodes - 1) :
                                x # p[2] /\ x - p[2] <= 1 /\ p[2] - x <= 1}}
         \cup {Mobile(j) : j \in 0..(min(2, num_mobile_nodes) - 1)}
    ELSE {Fixed(p[2] % num_fixed_nodes)}
         \cup ({Mobile((p[2] + 1) % num_mobile_nodes)} \ {p})

Participants ==
    {Fixed(i) : i \in 0..(num_fixed_nodes - 1)}
    \cup {Mobile(i) : i \in 0..(num_mobile_nodes - 1)}

\* the entries (index, type) of a neighbor list as participants
ListedNeighbors(list) == {<<list[k][2], list[k][1]>> : k \in 1..Len(list)}

\* C8: with F, M >= 1 _find_neighbors returns exactly the edges of the
\* adjacency rule, each once: Fixed-i -> the adjacent fixed nodes of the
\* chain and the first min(2, M) mobile nodes; Mobile-i -> Fixed-(i mod F)
\* and Mobile-((i+1) mod M) unless that is i.
C8_NeighborsFollowRule ==
    (num_fixed_nodes >= 1 /\ num_mobile_nodes >= 1 /\ TopologyReturned)
        => /\ DOMAIN neighbors = Participants
           /\ \A p \in Participants :
                 /\ ListedNeighbors(neighbors[p]) = RuleNeighbors(p)
                 /\ Len(neighbors[p]) = Cardinality(RuleNeighbors(p))

\* C8 witness: F = 2, M = 4: Fixed-0 -> Fixed-1, Mobile-0, Mobile-1 and
\* Mobile-3 -> Fixed-1, Mobile-0.
C8_Witness ==
    /\ pc = "setup_visualization"
    /\ num_fixed_nodes = 2 /\ num_mobile_nodes = 4
    /\ neighbors[Fixed(0)] = <<<<1, "fixed">>, <<0, "mobile">>, <<1, "mobile">>>>
    /\ neighbors[Mobile(3)] = <<<<1, "fixed">>, <<0, "mobile">>>>

\* C9: with F, M >= 1 (F = 1 and M = 1 included) no collaboration client
\* targets the participant it is installed on, and every target index is in
\* range: a fixed target below F, a mobile target below M.
C9_NoSelfEdgeInRange ==
    (num_fixed_nodes >= 1 /\ num_mobile_nodes >= 1)
        => \A c \in Range(collab_clients) :
              /\ c.target # c.node
              /\ c.target \in Participants

\* C9 witness: one fixed and one mobile participant, where (i+1) mod M is i.
C9_Witness ==
    /\ pc = "setup_visualization"
    /\ num_fixed_nodes = 1 /\ num_mobile_nodes = 1
    /\ [k \in 1..Len(collab_clients) |-> <<collab_clients[k].node, collab_clients[k].target>>]
          = <<<<Fixed(0), Mobile(0)>>, <<Mobile(0), Fixed(0)>>>>

\* C10: every discovery sender has MaxPackets = floor(discovery_duration /
\* discovery_interval) and stops at discovery_start + discovery_duration, and
\* in the run no discovery sender emits a packet at or after the end of the
\* discovery window.
C10_NoPacketAfterWindow ==
    /\ \A c \in Range(discovery_clients) :
          /\ c.max_packets * discovery_interval <= discovery_duration
          /\ discovery_duration < (c.max_packets + 1) * discovery_interval
          /\ c.stop = DiscoveryEnd
    /\ \A k \in 1..Len(last_sent) : last_sent[k] < DiscoveryEnd

DiscoveryApps == Range(discovery_servers \o discovery_clients)

CollabApps == Range(collab_servers \o collab_clients)

\* C11: the collaboration phase starts after the discovery phase has ended:
\* every discovery stop time is <= every collaboration start time, and at no
\* instant of the run is a collaboration application active while a
\* discovery application is.
C11_PhasesDoNotOverlap ==
    /\ \A d \in DiscoveryApps : \A c \in CollabApps : d.stop <= c.start
    /\ ~ \E a \in running, b \in running :
          /\ a[1] \in {"discovery_servers", "discovery_clients"}
          /\ b[1] \in {"collab_servers", "collab_clients"}

DiscoveryPhaseDone ==
    pc \in {"setup_collaboration", "setup_visualization", "run", "running",
            "done", "error"}

\* C12: after setup_discovery_phase each participant has exactly one
\* discovery receiver and one discovery sender registered (F + M entries in
\* each container); every receiver is on the discovery port and active from
\* discovery_start to discovery_start + discovery_duration, and every sender
\* targets the subnet broadcast address on that port.
C12_OneDiscoveryPairPerParticipant ==
    DiscoveryPhaseDone
        => /\ Len(discovery_servers) = num_fixed_nodes + num_mobile_nodes
           /\ Len(discovery_clients) = num_fixed_nodes + num_mobile_nodes
           /\ \A p \in Participants :
                 /\ Cardinality({k \in 1..Len(discovery_servers) :
                                    discovery_servers[k].node = p}) = 1
                 /\ Cardinality({k \in 1..Len(discovery_clients) :
                                    discovery_clients[k].node = p}) = 1
           /\ \A s \in Range(discovery_servers) :
                 /\ s.port = discovery_port
                 /\ s.start = discovery_start
                 /\ s.stop = discovery_start + discovery_duration
                 /\ s.addr = 1 + GlobalIndex(s.node)
           /\ \A c \in Range(discovery_clients) :
                 /\ c.remote_addr = BroadcastAddr
                 /\ c.remote_port = discovery_port

\* C12 witness: two fixed and four mobile participants, six receivers and
\* six senders.
C12_Witness ==
    /\ pc = "setup_collaboration"
    /\ num_fixed_nodes = 2 /\ num_mobile_nodes = 4
    /\ Len(discovery_servers) = 6 /\ Len(discovery_clients) = 6

\* the directed edges of the topology _find_neighbors returned
Edges ==
    UNION {{<<p, n>> : n \in ListedNeighbors(neighbors[p])} : p \in DOMAIN neighbors}

\* C13: after setup_collaboration_phase there is exactly one collaboration
\* receiver per participant, active for the whole collaboration window, and
\* exactly one collaboration sender per directed edge, installed on the
\* edge's source: an edge without a reverse edge has a sender on its source
\* only.
C13_OneSenderPerEdge ==
    TopologyReturned
        => /\ Len(collab_servers) = num_fixed_nodes + num_mobile_nodes
           /\ \A p \in Participants :
                 Cardinality({k \in 1..Len(collab_servers) :
                                 collab_servers[k].node = p}) = 1
           /\ \A s \in Range(collab_servers) :
                 s.start = collab_start /\ s.stop = collab_start + collab_duration
           /\ {<<c.node, c.target>> : c \in Range(collab_clients)} = Edges
           /\ Len(collab_clients) = Cardinality(Edges)

\* C13 witness: F = 2, M = 4: the edge Fixed-0 -> Mobile-1 has a sender, on
\* Fixed-0, and there is no sender from Mobile-1 to Fixed-0.
C13_Witness ==
    /\ pc = "setup_visualization"
    /\ num_fixed_nodes = 2 /\ num_mobile_nodes = 4
    /\ \E c \in Range(collab_clients) : c.node = Fixed(0) /\ c.target = Mobile(1)
    /\ ~ \E c \in Range(collab_clients) : c.node = Mobile(1) /\ c.target = Fixed(0)

\* C14: all collaboration clients of one participant start at collab_start +
\* globalIndex(participant) * 0.3, whatever neighbor each targets, and two
\* clients of different participants never share a start time.
C14_CommonStartPerParticipant ==
    \A c \in Range(collab_clients) :
        /\ c.start = collab_start + GlobalIndex(c.node) * CollabSpacing
        /\ \A d \in Range(collab_clients) :
              /\ d.node = c.node => d.start = c.start
              /\ d.node # c.node => d.start # c.start

\* C14 witness: Fixed-1 of two fixed nodes has clients to a fixed and to a
\* mobile neighbor, both starting at 25.3 s, and Mobile-0 starts at 25.6 s.
C14_Witness ==
    /\ pc = "setup_visualization"
    /\ num_fixed_nodes = 2
    /\ \E c \in Range(collab_clients) :
          c.node = Fixed(1) /\ c.target[1] = "fixed" /\ c.start = 253
    /\ \E c \in Range(collab_clients) :
          c.node = Fixed(1) /\ c.target[1] = "mobile" /\ c.start = 253
    /\ \E c \in Range(collab_clients) : c.node = Mobile(0) /\ c.start = 256

\* C15: one call of setup_visualization invokes _setup_netanim at most once,
\* and when it returns normally exactly one of the two renderers is
\* configured.
C15_RendererResolvedOnce ==
    /\ netanim_calls <= 1
    /\ SetupReturned => (orchestrator # anim)

\* C16: every scheduled stop time is <= sim_time, and when the event loop
\* has ended every application has been retired.
C16_AllRetiredBeforeStop ==
    /\ \A a \in DiscoveryApps \cup CollabApps : a.stop <= sim_time
    /\ pc = "done" => running = {}
====
